---- MODULE Spec2Model ----
(***************************************************************************)
(* Launch-vehicle stage sizing (functions.py, propulsion.py, constants.py). *)
(*                                                                         *)
(* The program computes in binary floating point (numpy float64).  The     *)
(* model computes in decimal floating point with a nine-digit mantissa:    *)
(* a number is a record [k, m, e]; a finite one has k = "fin" and value    *)
(* m * 10^e with 10^8 <= |m| < 10^9, or is a zero: m = 0 with e = 0 (+0.0)  *)
(* or e = -1 (-0.0); k = "inf" (m = +1 or -1) and k = "nan" are the         *)
(* non-finite values numpy produces on a division by zero.  Every           *)
(* arithmetic operation rounds its result to nine digits, as every float64  *)
(* operation rounds to fifty-three bits.  The exponent is unbounded: the    *)
(* model has no overflow and no underflow.                                  *)
(*                                                                         *)
(* Each function of functions.py is an operator, and a call of it from the  *)
(* idle program is one action; size_vehicle runs pass by pass through its   *)
(* loop (Pass, Return), called directly or by the module-level sweep over   *)
(* the split of the delta-v between two stages.  A call that does not       *)
(* return leaves the program at "hang" or "raised".                         *)
(***************************************************************************)
EXTENDS Integers, Sequences, FiniteSets, TLC

Pow10(d) ==
    <<1, 10, 100, 1000, 10000, 100000, 1000000, 10000000, 100000000, 1000000000>>[d + 1]
P8 == Pow10(8)
P9 == Pow10(9)

AbsInt(n) == IF n < 0 THEN -n ELSE n
SgnInt(n) == IF n > 0 THEN 1 ELSE IF n < 0 THEN -1 ELSE 0

(* the number of decimal digits of n, 1 <= n < 2^31 *)
NDigits(n) ==
    IF n < 100000
    THEN (IF n < 10 THEN 1 ELSE IF n < 100 THEN 2 ELSE IF n < 1000 THEN 3
          ELSE IF n < 10000 THEN 4 ELSE 5)
    ELSE (IF n < 1000000 THEN 6 ELSE IF n < 10000000 THEN 7 ELSE IF n < P8 THEN 8
          ELSE IF n < P9 THEN 9 ELSE 10)

(* <<Q, R>> with a*b = Q * 10^9 + R and 0 <= R < 10^9, for 0 <= a, b < 10^9,  *)
(* from the three-digit limbs of a and b: no intermediate value reaches 2^31 *)
MulQR9(a, b) ==
    LET a0 == a % 1000
        a1 == (a \div 1000) % 1000
        a2 == a \div 1000000
        b0 == b % 1000
        b1 == (b \div 1000) % 1000
        b2 == b \div 1000000
        low == (a0 * b1 + a1 * b0) * 1000 + a0 * b0
        s2 == (a0 * b2 + a1 * b1 + a2 * b0) + (low \div 1000000)
    IN  <<a2 * b2 * 1000 + (a1 * b2 + a2 * b1) + (s2 \div 1000),
          (s2 % 1000) * 1000000 + (low % 1000000)>>

(* for p = <<q, r>> with x = q*c + r and 0 <= r < c < 2^30: the pair for 2*x *)
Twice(p, c) ==
    IF 2 * p[2] >= c THEN <<2 * p[1] + 1, 2 * p[2] - c>> ELSE <<2 * p[1], 2 * p[2]>>
(* the pair for x + r, 0 <= r < c *)
Plus(p, r, c) ==
    IF p[2] + r >= c THEN <<p[1] + 1, p[2] + r - c>> ELSE <<p[1], p[2] + r>>
(* <<floor(10*r/c), 10*r mod c>> for 0 <= r < c < 2^30: 10*r = 2*(2*(2*r) + r) *)
DigitStep(r, c) == Twice(Plus(Twice(Twice(<<0, r>>, c), c), r, c), c)

(* the quotient q with the digit of ds = <<digit, remainder>> appended *)
AppendDigit(q, ds) == <<10 * q + ds[1], ds[2]>>
(* n more quotient digits of r/c appended to q, for qr = <<q, r>> *)
RECURSIVE LongDiv(_, _, _)
LongDiv(qr, c, n) ==
    IF n = 0 THEN qr
    ELSE LongDiv(AppendDigit(qr[1], DigitStep(qr[2], c)), c, n - 1)

(* n/c rounded to the nearest integer, for c a power of ten *)
RoundDiv(n, c) ==
    IF c = 1 THEN n ELSE SgnInt(n) * ((AbsInt(n) + (c \div 2)) \div c)

Fin(m, e) == [k |-> "fin", m |-> m, e |-> e]
NaN == [k |-> "nan", m |-> 0, e |-> 0]
Inf(s) == [k |-> "inf", m |-> s, e |-> 0]
Zero == Fin(0, 0)
NegZero == Fin(0, -1)
SZero(neg) == IF neg THEN NegZero ELSE Zero

(* the nine-digit number nearest to m * 10^e, |m| < 2^31 *)
Shift(m, e, d) == Fin(m * Pow10(d), e - d)
Norm(m, e) ==
    IF m = 0 THEN Zero
    ELSE IF AbsInt(m) >= P9 THEN Fin(SgnInt(m) * ((AbsInt(m) + 5) \div 10), e + 1)
    ELSE Shift(m, e, 9 - NDigits(AbsInt(m)))

(* a decimal literal of the source: Dec(1216, -2) is 12.16 *)
Dec(m, e) == Norm(m, e)
FromInt(n) == Norm(n, 0)
One == Dec(1, 0)
Two == Dec(2, 0)

IsNaN(a) == a.k = "nan"
IsInf(a) == a.k = "inf"
IsFin(a) == a.k = "fin"
IsZero(a) == a.k = "fin" /\ a.m = 0
Sign(a) == SgnInt(a.m)
(* the sign bit *)
Neg(a) == IF IsZero(a) THEN a.e = -1 ELSE a.m < 0

FNeg(a) ==
    IF IsNaN(a) THEN a
    ELSE IF IsZero(a) THEN SZero(~Neg(a))
    ELSE [a EXCEPT !.m = -a.m]
FAbs(a) ==
    IF IsNaN(a) THEN a
    ELSE IF IsZero(a) THEN Zero
    ELSE [a EXCEPT !.m = AbsInt(a.m)]

(* s * (qr[1] * 10^9 + qr[2]) * 10^e, rounded to nine digits *)
MulRound(s, qr, e) ==
    IF qr[1] >= P8
    THEN Norm(s * (qr[1] + (IF 2 * qr[2] >= P9 THEN 1 ELSE 0)), e + 9)
    ELSE Norm(s * (10 * qr[1] + (qr[2] \div P8)
                   + (IF 2 * (qr[2] % P8) >= P8 THEN 1 ELSE 0)), e + 8)
FMulFin(a, b) ==
    MulRound(Sign(a) * Sign(b), MulQR9(AbsInt(a.m), AbsInt(b.m)), a.e + b.e)
FMul(a, b) ==
    IF IsNaN(a) \/ IsNaN(b) THEN NaN
    ELSE IF IsInf(a) \/ IsInf(b)
         THEN IF IsZero(a) \/ IsZero(b) THEN NaN ELSE Inf(Sign(a) * Sign(b))
    ELSE IF IsZero(a) \/ IsZero(b) THEN SZero(Neg(a) # Neg(b))
    ELSE FMulFin(a, b)

(* s * (qr[1] + qr[2]/c) * 10^e, rounded to nine digits *)
DivRound(s, qr, c, e) ==
    Norm(s * (qr[1] + (IF 2 * qr[2] >= c THEN 1 ELSE 0)), e)
(* the quotient of the mantissas n and c to nine digits: k digits after the *)
(* integer part n \div c, which is 1..9 for n >= c and 0 otherwise          *)
DivDigits(s, n, c, k, e) ==
    DivRound(s, LongDiv(<<n \div c, n % c>>, c, k), c, e - k)
FDivFin(a, b) ==
    DivDigits(Sign(a) * Sign(b), AbsInt(a.m), AbsInt(b.m),
              IF AbsInt(a.m) >= AbsInt(b.m) THEN 8 ELSE 9, a.e - b.e)
FDiv(a, b) ==
    IF IsNaN(a) \/ IsNaN(b) THEN NaN
    ELSE IF IsInf(a)
         THEN IF IsInf(b) THEN NaN ELSE Inf(IF Neg(a) # Neg(b) THEN -1 ELSE 1)
    ELSE IF IsInf(b) THEN SZero(Neg(a) # Neg(b))
    ELSE IF IsZero(b)
         THEN IF IsZero(a) THEN NaN ELSE Inf(IF Neg(a) # Neg(b) THEN -1 ELSE 1)
    ELSE IF IsZero(a) THEN SZero(Neg(a) # Neg(b))
    ELSE FDivFin(a, b)

FAddFin(hi, lo) ==
    IF hi.e - lo.e >= 10 THEN hi
    ELSE Norm(hi.m + RoundDiv(lo.m, Pow10(hi.e - lo.e)), hi.e)
FAdd(a, b) ==
    IF IsNaN(a) \/ IsNaN(b) THEN NaN
    ELSE IF IsInf(a)
         THEN IF IsInf(b) /\ Sign(a) # Sign(b) THEN NaN ELSE a
    ELSE IF IsInf(b) THEN b
    ELSE IF IsZero(a) /\ IsZero(b) THEN SZero(Neg(a) /\ Neg(b))
    ELSE IF IsZero(a) THEN b
    ELSE IF IsZero(b) THEN a
    ELSE IF a.e >= b.e THEN FAddFin(a, b) ELSE FAddFin(b, a)
FSub(a, b) == FAdd(a, FNeg(b))

(* comparisons: every comparison with a NaN is false, and -0.0 = +0.0 *)
FLt(a, b) ==
    IF IsNaN(a) \/ IsNaN(b) THEN FALSE
    ELSE IF IsInf(a) THEN Sign(a) < 0 /\ ~(IsInf(b) /\ Sign(b) < 0)
    ELSE IF IsInf(b) THEN Sign(b) > 0
    ELSE IF Sign(a) # Sign(b) THEN Sign(a) < Sign(b)
    ELSE IF Sign(a) = 0 THEN FALSE
    ELSE IF a.e # b.e THEN (IF Sign(a) > 0 THEN a.e < b.e ELSE a.e > b.e)
    ELSE a.m < b.m
FGt(a, b) == FLt(b, a)
FEq(a, b) == ~IsNaN(a) /\ ~IsNaN(b) /\ (a = b \/ (IsZero(a) /\ IsZero(b)))
FGe(a, b) == FGt(a, b) \/ FEq(a, b)

(* np.ceil *)
FCeil(a) ==
    IF ~IsFin(a) \/ IsZero(a) \/ a.e >= 0 THEN a
    ELSE IF a.e <= -10 THEN (IF a.m > 0 THEN One ELSE NegZero)
    ELSE LET q == -((-a.m) \div Pow10(-a.e))
         IN  IF q = 0 THEN NegZero ELSE Norm(q, 0)

(* np.exp, by its power series: for t >= 0 the sum of t^j/j!, and          *)
(* exp(-t) = 1/exp(t).  The sum stops when a term no longer changes it.    *)
MaxExpTerms == 60
RECURSIVE ExpSeries(_, _, _, _)
(* the sum s with the term t^j/j! and the terms after it added *)
ExpAdd(t, j, term, s) ==
    IF FAdd(s, term) = s \/ j >= MaxExpTerms THEN FAdd(s, term)
    ELSE ExpSeries(t, j + 1, term, FAdd(s, term))
(* the sum s of the terms before t^j/j!, term being t^(j-1)/(j-1)!, with   *)
(* the terms from t^j/j! on added                                          *)
ExpSeries(t, j, term, s) == ExpAdd(t, j, FDiv(FMul(term, t), FromInt(j)), s)
FExp(x) ==
    IF IsNaN(x) THEN NaN
    ELSE IF IsInf(x) THEN (IF Sign(x) > 0 THEN Inf(1) ELSE Zero)
    ELSE IF Sign(x) >= 0 THEN ExpSeries(x, 1, One, One)
    ELSE FDiv(One, ExpSeries(FNeg(x), 1, One, One))

(***************************************************************************)
(* constants.py and propulsion.py                                          *)
(***************************************************************************)
g == Dec(980665, -5)

(* Python's None, and the outcome of a call that never returns *)
NoneV == [tag |-> "None"]
HangV == [tag |-> "Hang"]
AttributeError == [tag |-> "AttributeError"]

Fluid(density, temp) == [rho |-> density, T |-> temp]

(* np.sqrt(30), to nine digits *)
Sqrt30 == Dec(547722558, -8)

(* Engine.__init__: the attribute mass is set only when no mass is given.  *)
(* thrust/(isp*cn.g) is a division of Python floats: it raises for isp = 0, *)
(* and every engine of the model has isp > 0.                              *)
Engine(thrust, isp, fuel, ox, MR, mass) ==
    IF mass = NoneV
    THEN [F |-> thrust, isp |-> isp,
          mass |-> FAdd(FAdd(FMul(Dec(781, -6), thrust),
                             FMul(FMul(Dec(337, -7), thrust), Sqrt30)),
                        Dec(59, 0)),
          ox |-> ox, fuel |-> fuel, MR |-> MR,
          mdot |-> FDiv(thrust, FMul(isp, g))]
    ELSE [F |-> thrust, isp |-> isp,
          ox |-> ox, fuel |-> fuel, MR |-> MR,
          mdot |-> FDiv(thrust, FMul(isp, g))]

lox == Fluid(Dec(1140, 0), Dec(8871, -2))
rp1 == Fluid(Dec(730, 0), Dec(300, 0))
lh2 == Fluid(Dec(41, 0), Dec(2015, -2))
rl10 == Engine(Dec(1101, 2), Dec(4655, -1), lh2, lox, Dec(6, 0), NoneV)
rd180 == Engine(Dec(383, 4), Dec(338, 0), rp1, lox, Dec(24, -1), NoneV)

(***************************************************************************)
(* functions.py                                                            *)
(***************************************************************************)
(* mass_fractions_split with the payload fraction pi_bo + pi_se *)
mass_fractions_split_sum(pi_bo, pi_se) ==
    IF FGt(pi_se, pi_bo) THEN NoneV
    ELSE [tag |-> "fracs", pi_bo |-> pi_bo, pi_prop |-> FSub(One, pi_bo),
          pi_pl |-> FAdd(pi_bo, pi_se), pi_se |-> pi_se]

(* lines 21-28 of mass_fractions, pi_bo computed *)
mass_fractions_split(pi_bo, pi_se) ==
    IF FGt(pi_se, pi_bo) THEN NoneV
    ELSE [tag |-> "fracs", pi_bo |-> pi_bo, pi_prop |-> FSub(One, pi_bo),
          pi_pl |-> FSub(pi_bo, pi_se), pi_se |-> pi_se]

(* ve = isp*cn.g is a product of Python floats and -dv/ve a division of    *)
(* them: it raises for isp = 0, and every isp of the model is positive     *)
mass_fractions(isp, dv, pi_se) ==
    mass_fractions_split(FExp(FDiv(FNeg(dv), FMul(isp, g))), pi_se)

(* what prop_budget prints *)
TooHigh == "Ullage fraction too high: less than or equal to one"
TooLow == "Ullage fraction too low: must be over zero"
prop_budget_prints(f_ullage) ==
    IF FGe(f_ullage, One) THEN <<TooHigh>>
    ELSE IF FLt(f_ullage, Zero) THEN <<TooLow>>
    ELSE <<>>

(* prop_budget_tanks with the volumes multiplied by 1 - f_ullage *)
prop_budget_tanks_deflated(ox, fuel, f_ullage, m_ox_startup, m_ox, m_fuel_startup, m_f) ==
    [tag |-> "budget", m_ox |-> m_ox, m_f |-> m_f,
     v_ox |-> FMul(FDiv(FAdd(m_ox, m_ox_startup), ox.rho), FSub(One, f_ullage)),
     v_f |-> FMul(FDiv(FAdd(m_f, m_fuel_startup), fuel.rho), FSub(One, f_ullage)),
     startup_losses |-> FAdd(m_fuel_startup, m_ox_startup)]

(* the volumes, the startup losses and the return of prop_budget, the four *)
(* masses computed                                                         *)
prop_budget_tanks(ox, fuel, f_ullage, m_ox_startup, m_ox, m_fuel_startup, m_f) ==
    [tag |-> "budget", m_ox |-> m_ox, m_f |-> m_f,
     v_ox |-> FDiv(FDiv(FAdd(m_ox, m_ox_startup), ox.rho), FSub(One, f_ullage)),
     v_f |-> FDiv(FDiv(FAdd(m_f, m_fuel_startup), fuel.rho), FSub(One, f_ullage)),
     startup_losses |-> FAdd(m_fuel_startup, m_ox_startup)]

(* prop_budget with the test f_ullage > 1 *)
prop_budget_above_one(m_prop, engine, f_ullage, t_startup) ==
    IF FGt(f_ullage, One) THEN NoneV
    ELSE prop_budget_tanks(engine.ox, engine.fuel, f_ullage,
            FDiv(FMul(FMul(FMul(engine.mdot, t_startup), Two), engine.MR),
                 FAdd(engine.MR, One)),
            FDiv(FMul(engine.MR, m_prop), FAdd(engine.MR, One)),
            FDiv(FMul(FMul(engine.mdot, t_startup), Two), FAdd(engine.MR, One)),
            FDiv(m_prop, FAdd(engine.MR, One)))

(* prop_budget with the shares of oxidizer and fuel exchanged *)
prop_budget_fuel_for_ox(m_prop, engine, f_ullage, t_startup) ==
    IF FGe(f_ullage, One) THEN NoneV
    ELSE prop_budget_tanks(engine.ox, engine.fuel, f_ullage,
            FDiv(FMul(FMul(FMul(engine.mdot, t_startup), Two), engine.MR),
                 FAdd(engine.MR, One)),
            FDiv(m_prop, FAdd(engine.MR, One)),
            FDiv(FMul(FMul(engine.mdot, t_startup), Two), FAdd(engine.MR, One)),
            FDiv(FMul(engine.MR, m_prop), FAdd(engine.MR, One)))

prop_budget(m_prop, engine, f_ullage, t_startup) ==
    IF FGe(f_ullage, One) THEN NoneV
    ELSE prop_budget_tanks(engine.ox, engine.fuel, f_ullage,
            FDiv(FMul(FMul(FMul(engine.mdot, t_startup), Two), engine.MR),
                 FAdd(engine.MR, One)),
            FDiv(FMul(engine.MR, m_prop), FAdd(engine.MR, One)),
            FDiv(FMul(FMul(engine.mdot, t_startup), Two), FAdd(engine.MR, One)),
            FDiv(m_prop, FAdd(engine.MR, One)))

(* the defaults of prop_budget's keyword parameters *)
f_ullage_default == Dec(5, -2)
t_startup_default == One

(* get_margin's loop "while fracs is None: pi_se = pi_se/2; fracs = ...",   *)
(* entered with fracs: the fractions it ends with, or HangV when halving    *)
(* leaves pi_se as it is (pi_se = +inf), so that the loop never ends        *)
RECURSIVE halve(_, _, _, _)
halve(isp, dv, pi_se, fracs) ==
    IF fracs # NoneV THEN fracs
    ELSE IF FDiv(pi_se, Two) = pi_se THEN HangV
    ELSE halve(isp, dv, FDiv(pi_se, Two), mass_fractions(isp, dv, FDiv(pi_se, Two)))

(* get_margin_return without the 15 points of required margin *)
get_margin_return_unreserved(m0, ne, m_se, m_act) ==
    [tag |-> "margin",
     margin |-> FMul(FDiv(FSub(m_se, m_act), m_act), Dec(100, 0)),
     m0 |-> m0, ne |-> ne]

(* m_act, margin and the return of get_margin *)
get_margin_return(m0, ne, m_se, m_act) ==
    [tag |-> "margin",
     margin |-> FSub(FMul(FDiv(FSub(m_se, m_act), m_act), Dec(100, 0)), Dec(15, 0)),
     m0 |-> m0, ne |-> ne]

(* the actual stage mass of get_margin: engine.mass raises for an engine    *)
(* built with a mass                                                        *)
get_margin_actual(engine, m0, ne, m_se, budget) ==
    IF "mass" \notin DOMAIN engine THEN AttributeError
    ELSE get_margin_return(m0, ne, m_se,
            FAdd(FAdd(FMul(FAdd(budget.v_ox, budget.v_f), Dec(1216, -2)),
                      budget.startup_losses),
                 FMul(engine.mass, ne)))

(* m_se, m_prop, ne and the propellant budget of get_margin, m0 computed *)
get_margin_masses(engine, fracs, m0) ==
    get_margin_actual(engine, m0,
        FCeil(FDiv(FMul(FMul(Dec(12, -1), m0), g), engine.F)),
        FMul(m0, fracs.pi_se),
        prop_budget(FMul(fracs.pi_prop, m0), engine, f_ullage_default,
                    t_startup_default))

(* get_margin after its loop *)
get_margin_unpack(engine, mpl, fracs) ==
    IF fracs = HangV THEN HangV
    ELSE get_margin_masses(engine, fracs, FDiv(mpl, fracs.pi_pl))

get_margin(engine, mpl, dv, pi_se) ==
    get_margin_unpack(engine, mpl,
        halve(engine.isp, dv, pi_se, mass_fractions(engine.isp, dv, pi_se)))

(* size_vehicle_entry keeping the x1 an earlier call left behind *)
size_vehicle_entry_kept(left) == IF "k" \in DOMAIN left THEN left ELSE Dec(1, -2)

(* x1 = 0.01 at the entry of size_vehicle: a local of the call, whatever   *)
(* an earlier call left in its own x1                                      *)
size_vehicle_entry(left) == Dec(1, -2)

(* the end of a pass through size_vehicle's loop: change, with x1, prev    *)
(* and margin as the pass leaves them                                      *)
size_vehicle_change(x1, prev, margin) ==
    [tag |-> "pass", x1 |-> x1, change |-> FSub(x1, prev), prev |-> prev,
     margin |-> margin]

(* the slope m and the new x1 of a pass, the two margins computed; a call  *)
(* of get_margin that does not return ends the pass                        *)
size_vehicle_slope(x1, dx, margin, margin2) ==
    IF margin.tag # "margin" THEN margin
    ELSE IF margin2.tag # "margin" THEN margin2
    ELSE size_vehicle_change(
            FAdd(FDiv(FNeg(margin.margin),
                      FDiv(FSub(margin2.margin, margin.margin), dx)),
                 x1),
            x1, margin)

(* the two evaluations of a pass, dx computed *)
size_vehicle_margins(mpl, dv, engine, x1, dx) ==
    size_vehicle_slope(x1, dx, get_margin(engine, mpl, dv, x1),
                       get_margin(engine, mpl, dv, FAdd(x1, dx)))

(* one pass through the body of size_vehicle's while loop, from x1 *)
size_vehicle_body(mpl, dv, engine, x1) ==
    size_vehicle_margins(mpl, dv, engine, x1, FMul(Dec(-1, -3), x1))

(* size_vehicle_pair with get_margin(...)[0], the margin, for the mass *)
size_vehicle_pair_margin(last, margin) ==
    IF last.tag # "margin" THEN last
    ELSE [tag |-> "pair", m0 |-> last.margin, ne |-> margin.ne]

(* the pair size_vehicle returns: the mass of the evaluation at the final  *)
(* x1 and the engine count of the loop's variable margin                   *)
size_vehicle_pair(last, margin) ==
    IF last.tag # "margin" THEN last
    ELSE [tag |-> "pair", m0 |-> last.m0, ne |-> margin.ne]

(* size_vehicle's return statement *)
size_vehicle_return(mpl, dv, engine, x1, margin) ==
    size_vehicle_pair(get_margin(engine, mpl, dv, x1), margin)

(* np.linspace(start, stop, num): start + i*step, the last sample being stop *)
linspace(start, stop, num) ==
    LET step == FDiv(FSub(stop, start), FromInt(num - 1))
    IN  [i \in 1..num |->
            IF i = num THEN stop ELSE FAdd(FMul(FromInt(i - 1), step), start)]

(***************************************************************************)
(* newtonraphson.py                                                        *)
(***************************************************************************)
(* func(args[0][0], args[0][1], x, args[0][2]) for the functions handed to *)
(* newton_raphson: get_margin itself, whose third parameter is dv, and a   *)
(* caller's margin_of_fraction(engine, mpl, x, dv), which is               *)
(* get_margin(engine, mpl, dv, x)                                          *)
newton_raphson_func(func, args, x) ==
    IF func = "get_margin" THEN get_margin(args[1], args[2], x, args[3])
    ELSE get_margin(args[1], args[2], args[3], x)

(* the end of a pass through newton_raphson's loop: change, with x1, prev, *)
(* y1 and m as the pass leaves them                                        *)
newton_raphson_change(x1, prev, y1, m) ==
    [tag |-> "pass", x1 |-> x1, change |-> FSub(x1, prev), prev |-> prev,
     y1 |-> y1, m |-> m]

(* x1 = (-y1/m) + x1 *)
newton_raphson_update(x1, y1, m) ==
    newton_raphson_change(FAdd(FDiv(FNeg(y1), m), x1), x1, y1, m)

(* y1 = y1[0] and y2 = y2[0] of the tuples func returned, and the slope    *)
(* m = (y2 - y1)/dx; a call of func that does not return ends the pass     *)
newton_raphson_slope(x1, dx, y1, y2) ==
    IF y1.tag # "margin" THEN y1
    ELSE IF y2.tag # "margin" THEN y2
    ELSE newton_raphson_update(x1, y1.margin,
                               FDiv(FSub(y2.margin, y1.margin), dx))

(* the two evaluations of a pass, dx computed *)
newton_raphson_values(func, args, x1, dx) ==
    newton_raphson_slope(x1, dx, newton_raphson_func(func, args, x1),
                         newton_raphson_func(func, args, FAdd(x1, dx)))

(* one pass through the body of newton_raphson's while loop, from x1, up   *)
(* to the test of m                                                        *)
newton_raphson_body(func, args, x1) ==
    newton_raphson_values(func, args, x1, FMul(Dec(-1, -4), x1))

(* the test that ends a pass: if m <= 1e-3 *)
newton_raphson_break(m) == FGe(Dec(1, -3), m)

(***************************************************************************)
(* The inputs of the model                                                 *)
(***************************************************************************)
(* engines with a thrust of zero and a negative thrust *)
zero_thrust == Engine(Zero, Dec(4655, -1), lh2, lox, Dec(6, 0), NoneV)
neg_thrust == Engine(Dec(-1101, 2), Dec(4655, -1), lh2, lox, Dec(6, 0), NoneV)

Isps == {Dec(4655, -1), Dec(338, 0)}
Dvs == {Dec(1000, 0), Dec(200, 0), Dec(189965, -3), Zero, Dec(-1000, 0)}
Mpls == {Dec(1000, 0), Dec(244, 0), Zero, Dec(-1000, 0)}
PiSes == {Dec(-1, -1), Zero, Dec(1, -2), Dec(5, -2), Dec(17, -2), Dec(5, -1),
          One, Dec(15, -1), Two}
MProps == {Zero, Dec(1000, 0), Dec(50005, -1), Dec(-100, 0)}
Ullages == {Dec(-1, -1), Zero, Dec(5, -2), Dec(5, -1), Dec(99, -2), One, Dec(15, -1)}
Startups == {One, Two}
(* an engine built with its dry mass: Engine(110.1e3, 465.5, lh2, lox, 6.0, 167) *)
rl10_weighed == Engine(Dec(1101, 2), Dec(4655, -1), lh2, lox, Dec(6, 0), Dec(167, 0))

Engines == {rl10, rd180, zero_thrust, neg_thrust, rl10_weighed}

(* the trials get_margin is called with: size_vehicle hands it every x1 its *)
(* update gives, an overflow to +inf among them                             *)
Trials == PiSes \cup {Inf(1)}

(* the burnout fraction exp(-dv/(isp*g)) of mass_fractions *)
BurnoutFraction(isp, dv) == FExp(FDiv(FNeg(dv), FMul(isp, g)))

(* the calls of size_vehicle: rd180 with the payloads its iteration settles on *)
SizeVehicleCalls ==
    [engine : {rl10, zero_thrust, neg_thrust}, mpl : Mpls, dv : Dvs]
    \cup [engine : {rd180}, mpl : {Dec(1000, 0), Dec(-1000, 0)}, dv : Dvs]
    \cup {[engine |-> rl10, mpl |-> Dec(50000, 0), dv |-> Dec(10000, 0)],
          [engine |-> rl10, mpl |-> Dec(5000, 0), dv |-> Dec(20000, 0)]}

(* the passes of a root-finding loop the model follows *)
MaxIter == 60
(* the number of samples of the sweep's grid, for the 100 of the program *)
NumF == 5

(***************************************************************************)
(* The state                                                               *)
(***************************************************************************)
Unbound == [tag |-> "unbound"]

(* the calls of newton_raphson: get_margin as func, solved for dv from the *)
(* guesses, and margin_of_fraction, solved for the structural fraction     *)
NewtonCalls ==
    [func : {"get_margin"},
     args : {<<rl10, Dec(1000, 0), Dec(5, -2)>>, <<rd180, Dec(1000, 0), Dec(17, -2)>>},
     guesses : {<<Dec(1000, 0)>>, <<Zero>>, <<Dec(200, 0), Dec(1000, 0)>>}]
    \cup
    [func : {"margin_of_fraction"},
     args : {<<c.engine, c.mpl, c.dv>> :
                c \in {d \in SizeVehicleCalls : d.engine = rl10}},
     guesses : {<<Dec(1, -2)>>, <<Zero>>, <<Dec(1, -2), Dec(5, -2)>>}]

VARIABLES
    pc,         \* where the program is
    call,       \* the function called last and its arguments
    ret,        \* what the call returned
    out,        \* what the call printed
    caller,     \* who called size_vehicle: "direct", or the sweep's "m2" or "m1"
    x1, change, prev, margin,       \* the locals of size_vehicle
    iter,       \* the passes through the loop so far
    seen,       \* the iterates x1 the loop has started a pass from
    fs, ms, v1s, v2s, nes,          \* the module-level lists of functions.py
    idx, f, v1, v2, m2, m1,         \* the sweep's loop: fs[idx] is f
    roots, guess, gi, m, y1         \* newton_raphson: its list of roots, and
                                    \* the guess call.guesses[gi] of its for
                                    \* loop, whose while loop has the locals
                                    \* x1, change and prev, and n in iter

sv_locals == <<x1, change, prev, margin, iter, seen>>
sweep_vars == <<fs, ms, v1s, v2s, nes, idx, f, v1, v2, m2, m1>>
nr_locals == <<roots, guess, gi, m, y1>>
vars == <<pc, call, ret, out, caller, sv_locals, sweep_vars, nr_locals>>

Init ==
    /\ pc = "idle"
    /\ call = [op |-> "none"]
    /\ ret = Unbound
    /\ out = <<>>
    /\ caller = "none"
    /\ x1 = Unbound /\ change = Unbound /\ prev = Unbound /\ margin = Unbound
    /\ iter = 0
    /\ seen = {}
    /\ fs = <<>> /\ ms = <<>> /\ v1s = <<>> /\ v2s = <<>> /\ nes = <<>>
    /\ idx = 0
    /\ f = Unbound /\ v1 = Unbound /\ v2 = Unbound /\ m2 = Unbound /\ m1 = Unbound
    /\ roots = <<>>
    /\ guess = Unbound /\ gi = 0 /\ m = Unbound /\ y1 = Unbound

(***************************************************************************)
(* Direct calls of the functions                                           *)
(***************************************************************************)
CallMassFractions ==
    /\ pc = "idle"
    /\ \E isp \in Isps, dv \in Dvs :
        \E pi_se \in PiSes \cup {BurnoutFraction(isp, dv)} :
            /\ call' = [op |-> "mass_fractions", isp |-> isp, dv |-> dv, pi_se |-> pi_se]
            /\ ret' = mass_fractions(isp, dv, pi_se)
    /\ out' = <<>>
    /\ pc' = "returned"
    /\ UNCHANGED <<caller, sv_locals, sweep_vars, nr_locals>>

CallPropBudget ==
    /\ pc = "idle"
    /\ \E m_prop \in MProps, engine \in {rl10, rd180}, f_ullage \in Ullages,
          t_startup \in Startups :
            /\ call' = [op |-> "prop_budget", m_prop |-> m_prop, engine |-> engine,
                        f_ullage |-> f_ullage, t_startup |-> t_startup]
            /\ ret' = prop_budget(m_prop, engine, f_ullage, t_startup)
            /\ out' = prop_budget_prints(f_ullage)
    /\ pc' = "returned"
    /\ UNCHANGED <<caller, sv_locals, sweep_vars, nr_locals>>

(* where a call that gave r leaves the program: a HangV never returns, an  *)
(* exception ends it                                                       *)
After(r, returned) ==
    IF r = HangV THEN "hang"
    ELSE IF r = AttributeError THEN "raised"
    ELSE returned

CallGetMargin ==
    /\ pc = "idle"
    /\ \E engine \in Engines, mpl \in Mpls, dv \in Dvs, pi_se \in Trials :
        \E r \in {get_margin(engine, mpl, dv, pi_se)} :
            /\ call' = [op |-> "get_margin", engine |-> engine, mpl |-> mpl,
                        dv |-> dv, pi_se |-> pi_se]
            /\ ret' = r
            /\ pc' = After(r, "returned")
    /\ out' = <<>>
    /\ UNCHANGED <<caller, sv_locals, sweep_vars, nr_locals>>

(***************************************************************************)
(* size_vehicle                                                            *)
(***************************************************************************)
(* the entry of size_vehicle(mpl, dv, engine): x1 = 0.01, change = 1 *)
EnterSizeVehicle(mpl, dv, engine, who) ==
    /\ call' = [op |-> "size_vehicle", mpl |-> mpl, dv |-> dv, engine |-> engine]
    /\ caller' = who
    /\ x1' = size_vehicle_entry(x1)
    /\ change' = One
    /\ prev' = Unbound
    /\ margin' = Unbound
    /\ iter' = 0
    /\ seen' = {}
    /\ ret' = Unbound
    /\ out' = <<>>
    /\ pc' = "size_vehicle"

CallSizeVehicle ==
    /\ pc = "idle"
    /\ \E c \in SizeVehicleCalls : EnterSizeVehicle(c.mpl, c.dv, c.engine, "direct")
    /\ UNCHANGED <<sweep_vars, nr_locals>>

(* the test of the while loop: abs(change) >= 1e-6 *)
LoopTest == FGe(FAbs(change), Dec(1, -6))

(* one pass through the loop *)
Pass ==
    /\ pc = "size_vehicle"
    /\ LoopTest
    /\ iter < MaxIter
    /\ \E r \in {size_vehicle_body(call.mpl, call.dv, call.engine, x1)} :
           IF r.tag = "pass"
           THEN /\ x1' = r.x1
                /\ change' = r.change
                /\ prev' = r.prev
                /\ margin' = r.margin
                /\ UNCHANGED <<pc, ret>>
           ELSE /\ ret' = r
                /\ pc' = After(r, "returned")
                /\ UNCHANGED <<x1, change, prev, margin>>
    /\ iter' = iter + 1
    /\ seen' = seen \cup {x1}
    /\ UNCHANGED <<call, out, caller, sweep_vars, nr_locals>>

(* the loop is left and size_vehicle returns to its caller *)
Return ==
    /\ pc = "size_vehicle"
    /\ ~LoopTest
    /\ \E r \in {size_vehicle_return(call.mpl, call.dv, call.engine, x1, margin)} :
           /\ ret' = r
           /\ pc' = After(r, IF caller = "direct" THEN "returned" ELSE caller)
    /\ UNCHANGED <<call, out, caller, sv_locals, sweep_vars, nr_locals>>

(* size_vehicle(mpl, dv, engine) as the function of its arguments that the *)
(* def is: the loop from x1 = 0.01 and change = 1 to the return statement, *)
(* for the passes the model follows                                       *)
Unfollowed == [tag |-> "unfollowed"]

RECURSIVE size_vehicle_while(_, _, _, _, _, _, _)
RECURSIVE size_vehicle_pass(_, _, _, _, _)
size_vehicle_while(mpl, dv, engine, x, chg, mgn, n) ==
    IF ~FGe(FAbs(chg), Dec(1, -6)) THEN size_vehicle_return(mpl, dv, engine, x, mgn)
    ELSE IF n = 0 THEN Unfollowed
    ELSE size_vehicle_pass(mpl, dv, engine, size_vehicle_body(mpl, dv, engine, x), n)

size_vehicle_pass(mpl, dv, engine, r, n) ==
    IF r.tag # "pass" THEN r
    ELSE size_vehicle_while(mpl, dv, engine, r.x1, r.change, r.margin, n - 1)

size_vehicle(mpl, dv, engine) ==
    size_vehicle_while(mpl, dv, engine, size_vehicle_entry(Unbound), One,
                       Unbound, MaxIter)

(***************************************************************************)
(* The module-level sweep of functions.py                                  *)
(***************************************************************************)
payload == Dec(1000, 0)
total_dv == Dec(9000, 0)
(* v1 = 9000*f and v2 = 9000*(1 - f) *)
first_stage_dv(f_) == FMul(total_dv, f_)
(* second_stage_dv with the share f of the first stage *)
second_stage_dv_as_first(f_) == FMul(total_dv, f_)
second_stage_dv(f_) == FMul(total_dv, FSub(One, f_))

(* fs = np.linspace(0.1, 0.9, 100) and the empty lists *)
SweepBegin ==
    /\ pc = "idle"
    /\ fs' = linspace(Dec(1, -1), Dec(9, -1), NumF)
    /\ ms' = <<>> /\ v1s' = <<>> /\ v2s' = <<>> /\ nes' = <<>>
    /\ idx' = 1
    /\ pc' = "for"
    /\ call' = [op |-> "sweep"]
    /\ UNCHANGED <<ret, out, caller, sv_locals, f, v1, v2, m2, m1, nr_locals>>

(* for f in fs: v1, v2, and the call m2 = size_vehicle(1000, v2, prop.rl10) *)
SweepStage2 ==
    /\ pc = "for"
    /\ idx <= Len(fs)
    /\ f' = fs[idx]
    /\ v1' = first_stage_dv(fs[idx])
    /\ v2' = second_stage_dv(fs[idx])
    /\ EnterSizeVehicle(payload, v2', rl10, "m2")
    /\ UNCHANGED <<fs, ms, v1s, v2s, nes, idx, m2, m1, nr_locals>>

(* m2 is bound, and the call m1 = size_vehicle(m2[0], v1, prop.rl10) *)
SweepStage1 ==
    /\ pc = "m2"
    /\ m2' = ret
    /\ EnterSizeVehicle(ret.m0, v1, rl10, "m1")
    /\ UNCHANGED <<fs, ms, v1s, v2s, nes, idx, f, v1, v2, m1, nr_locals>>

(* m1 is bound, and the four appends that end the loop's body *)
SweepAppend ==
    /\ pc = "m1"
    /\ m1' = ret
    /\ ms' = Append(ms, ret.m0)
    /\ nes' = Append(nes, FAdd(ret.ne, m2.ne))
    /\ v1s' = Append(v1s, v1)
    /\ v2s' = Append(v2s, v2)
    /\ idx' = idx + 1
    /\ pc' = "for"
    /\ UNCHANGED <<call, ret, out, caller, sv_locals, fs, f, v1, v2, m2, nr_locals>>

(* the loop is over: the lists go to the plots *)
SweepEnd ==
    /\ pc = "for"
    /\ idx > Len(fs)
    /\ pc' = "plot"
    /\ UNCHANGED <<call, ret, out, caller, sv_locals, sweep_vars, nr_locals>>

(***************************************************************************)
(* newton_raphson                                                          *)
(***************************************************************************)
(* the entry of newton_raphson(func, guesses, args): roots = [] *)
CallNewtonRaphson ==
    /\ pc = "idle"
    /\ \E c \in NewtonCalls :
           call' = [op |-> "newton_raphson", func |-> c.func,
                    guesses |-> c.guesses, args |-> c.args]
    /\ roots' = <<>>
    /\ gi' = 1
    /\ ret' = Unbound
    /\ out' = <<>>
    /\ pc' = "guesses"
    /\ UNCHANGED <<caller, sv_locals, sweep_vars, guess, m, y1>>

(* for x1 in guesses: guess = x1, n = 0, change = 1 *)
NewtonGuess ==
    /\ pc = "guesses"
    /\ gi <= Len(call.guesses)
    /\ x1' = call.guesses[gi]
    /\ guess' = call.guesses[gi]
    /\ iter' = 0
    /\ seen' = {}
    /\ change' = One
    /\ pc' = "newton_raphson"
    /\ UNCHANGED <<call, ret, out, caller, prev, margin, sweep_vars, roots, gi, m, y1>>

(* one pass through the while loop, the test of m and its break included *)
NewtonPass ==
    /\ pc = "newton_raphson"
    /\ LoopTest
    /\ iter < MaxIter
    /\ \E r \in {newton_raphson_body(call.func, call.args, x1)} :
           IF r.tag = "pass"
           THEN /\ x1' = r.x1
                /\ change' = r.change
                /\ prev' = r.prev
                /\ m' = r.m
                /\ y1' = r.y1
                /\ IF newton_raphson_break(r.m)
                   THEN /\ out' = Append(out, <<"Unable to converge for root: ",
                                                guess, r.x1, r.y1>>)
                        /\ pc' = "break"
                   ELSE UNCHANGED <<out, pc>>
                /\ UNCHANGED ret
           ELSE /\ ret' = r
                /\ pc' = After(r, "returned")
                /\ UNCHANGED <<x1, change, prev, m, y1, out>>
    /\ iter' = iter + 1
    /\ seen' = seen \cup {x1}
    /\ UNCHANGED <<call, caller, margin, sweep_vars, roots, guess, gi>>

(* the while loop is left, by its test or by the break: roots.append(x1) *)
NewtonAppend ==
    /\ \/ pc = "newton_raphson" /\ ~LoopTest
       \/ pc = "break"
    /\ roots' = Append(roots, x1)
    /\ gi' = gi + 1
    /\ pc' = "guesses"
    /\ UNCHANGED <<call, ret, out, caller, sv_locals, sweep_vars, guess, m, y1>>

(* the for loop is over: return roots *)
NewtonReturn ==
    /\ pc = "guesses"
    /\ gi > Len(call.guesses)
    /\ ret' = [tag |-> "roots", roots |-> roots]
    /\ pc' = "returned"
    /\ UNCHANGED <<call, out, caller, sv_locals, sweep_vars, roots, guess, gi, m, y1>>

Next ==
    \/ CallMassFractions
    \/ CallPropBudget
    \/ CallGetMargin
    \/ CallSizeVehicle
    \/ Pass
    \/ Return
    \/ SweepBegin
    \/ SweepStage2
    \/ SweepStage1
    \/ SweepAppend
    \/ SweepEnd
    \/ CallNewtonRaphson
    \/ NewtonGuess
    \/ NewtonPass
    \/ NewtonAppend
    \/ NewtonReturn

Spec == Init /\ [][Next]_vars

(***************************************************************************)
(* Properties                                                              *)
(***************************************************************************)
(* rounding: two results of the same real number computed along different  *)
(* paths differ by a few units of the ninth digit                          *)
Tol == Dec(1, -8)
FLe(a, b) == FLt(a, b) \/ FEq(a, b)
Close(a, b) ==
    /\ IsFin(a) /\ IsFin(b)
    /\ FLe(FAbs(FSub(a, b)), FMul(Tol, FAdd(FAbs(a), FAbs(b))))
InUnit(a) == FGe(a, Zero) /\ FLe(a, One)

Returned(op) == pc = "returned" /\ call.op = op
(* size_vehicle has returned its pair, to a direct caller or to the sweep *)
SizeVehicleReturned == call.op = "size_vehicle" /\ ret.tag = "pair"
(* a payload, a delta-v and a thrust above zero *)
PositiveInputs ==
    FGt(call.mpl, Zero) /\ FGt(call.dv, Zero) /\ FGt(call.engine.F, Zero)
(* the engine count of a stage of mass m0: ceil(1.2*m0*g/F) *)
EngineCount(m0, engine) == FCeil(FDiv(FMul(FMul(Dec(12, -1), m0), g), engine.F))
(* the startup masses of prop_budget *)
OxStartup(engine, t_startup) ==
    FDiv(FMul(FMul(FMul(engine.mdot, t_startup), Two), engine.MR), FAdd(engine.MR, One))
FuelStartup(engine, t_startup) ==
    FDiv(FMul(FMul(engine.mdot, t_startup), Two), FAdd(engine.MR, One))

(* C1: mass_fractions returns None for every pi_se >= pi_bo, the boundary  *)
(* pi_se = pi_bo included, and never returns fractions with pi_pl <= 0.    *)
C1_InfeasibleFromBurnoutFraction ==
    Returned("mass_fractions") =>
        /\ FGe(call.pi_se, BurnoutFraction(call.isp, call.dv)) => ret = NoneV
        /\ ret # NoneV => FGt(ret.pi_pl, Zero)

(* C2: for isp > 0, dv >= 0 and 0 < pi_se < pi_bo, mass_fractions returns  *)
(* (pi_bo, pi_prop, pi_pl, pi_se) with pi_pl = pi_bo - pi_se, pi_prop =     *)
(* 1 - pi_bo, the pi_se it was given, pi_bo, pi_prop and pi_pl in [0, 1],   *)
(* and pi_se + pi_prop + pi_pl = 1 (to rounding).                           *)
C2_Fractions ==
    /\ Returned("mass_fractions")
    /\ FGt(call.isp, Zero) /\ FGe(call.dv, Zero)
    /\ FGt(call.pi_se, Zero) /\ FLt(call.pi_se, BurnoutFraction(call.isp, call.dv))
    => /\ ret.tag = "fracs"
       /\ ret.pi_bo = BurnoutFraction(call.isp, call.dv)
       /\ ret.pi_pl = FSub(ret.pi_bo, call.pi_se)
       /\ ret.pi_prop = FSub(One, ret.pi_bo)
       /\ ret.pi_se = call.pi_se
       /\ InUnit(ret.pi_bo) /\ InUnit(ret.pi_prop) /\ InUnit(ret.pi_pl)
       /\ FLe(FAbs(FSub(FAdd(FAdd(ret.pi_se, ret.pi_prop), ret.pi_pl), One)), Tol)
C2_Witness ==
    /\ Returned("mass_fractions")
    /\ call.dv = Dec(1000, 0) /\ call.pi_se = Dec(17, -2)
    /\ ret.tag = "fracs"

(* C3: the pair size_vehicle returns comes from one evaluation of          *)
(* get_margin, the one at the final x1: its m0 and its ne, so that          *)
(* ne = ceil(1.2*m0*g/F).                                                   *)
C3_PairFromFinalEvaluation ==
    SizeVehicleReturned /\ PositiveInputs =>
        \E last \in {get_margin(call.engine, call.mpl, call.dv, x1)} :
            /\ ret.m0 = last.m0
            /\ ret.ne = last.ne
            /\ ret.ne = EngineCount(ret.m0, call.engine)

(* C4: when size_vehicle has returned, the margin get_margin gives at the  *)
(* final x1 is below 1e-3 in absolute value.                               *)
C4_RoundTripMargin ==
    SizeVehicleReturned /\ PositiveInputs =>
        FLt(FAbs(get_margin(call.engine, call.mpl, call.dv, x1).margin), Dec(1, -3))

(* C5 as the specification states it: the stage sized first, with the      *)
(* fixed payload, gets the delta-v f*9000 and the stage sized second, on   *)
(* top of which nothing but the first's m0 rides, gets (1 - f)*9000.       *)
C5_FirstSizedStageGetsF ==
    /\ call.op = "size_vehicle" /\ caller = "m2" => call.dv = FMul(total_dv, f)
    /\ call.op = "size_vehicle" /\ caller = "m1" =>
            call.dv = FMul(total_dv, FSub(One, f))
(* C5 as the program has it: for every f the stage sized first carries the *)
(* fixed payload and gets v2 = (1 - f)*9000; the stage sized second carries *)
(* the first's m0 and gets v1 = f*9000; v1 + v2 = 9000 (to rounding); the   *)
(* mass recorded is the m0 of the stage sized second and the engine count   *)
(* recorded is the sum of the two stages' ne.                               *)
C5_SweepStages ==
    /\ call.op = "size_vehicle" /\ caller = "m2" =>
        /\ call.mpl = payload
        /\ call.dv = FMul(total_dv, FSub(One, f)) /\ call.dv = v2
        /\ v1 = FMul(total_dv, f)
        /\ Close(FAdd(v1, v2), total_dv)
    /\ call.op = "size_vehicle" /\ caller = "m1" =>
        /\ m2.tag = "pair" /\ call.mpl = m2.m0
        /\ call.dv = FMul(total_dv, f) /\ call.dv = v1
    /\ pc = "for" /\ idx > 1 =>
        /\ caller = "m1" /\ ret.tag = "pair"
        /\ ms[idx - 1] = ret.m0
        /\ nes[idx - 1] = FAdd(ret.ne, m2.ne)
C5_Witness ==
    /\ pc = "for" /\ idx = 2 /\ f = Dec(1, -1)
    /\ call.dv = Dec(900, 0) /\ m2.tag = "pair" /\ Len(ms) = 1

C7_UllageRange ==
    Returned("prop_budget") =>
        /\ FGe(call.f_ullage, One) => ret = NoneV /\ out = <<TooHigh>>
        /\ FGe(call.f_ullage, Zero) /\ FLt(call.f_ullage, One) =>
            /\ ret.tag = "budget" /\ out = <<>>
            /\ DOMAIN ret = {"tag", "m_ox", "m_f", "v_ox", "v_f", "startup_losses"}
            /\ \A k \in DOMAIN ret \ {"tag"} : IsFin(ret[k])
C7_Witness ==
    Returned("prop_budget") /\ call.f_ullage = One /\ ret = NoneV

(* C8: for every m_prop and MR > 0 the budget prop_budget returns has      *)
(* m_ox = MR/(MR + 1)*m_prop and m_f = m_prop/(MR + 1), so m_ox + m_f =     *)
(* m_prop and m_ox = MR*m_f (all to rounding), and its startup_losses is    *)
(* the sum of the two startup masses, which m_prop and the ullage fraction  *)
(* do not enter.                                                            *)
C8_MixtureSplit ==
    Returned("prop_budget") /\ ret # NoneV /\ FGt(call.engine.MR, Zero) =>
        /\ Close(ret.m_ox, FMul(FDiv(call.engine.MR, FAdd(call.engine.MR, One)),
                                call.m_prop))
        /\ Close(ret.m_f, FDiv(call.m_prop, FAdd(call.engine.MR, One)))
        /\ Close(FAdd(ret.m_ox, ret.m_f), call.m_prop)
        /\ Close(ret.m_ox, FMul(call.engine.MR, ret.m_f))
        /\ ret.startup_losses = FAdd(FuelStartup(call.engine, call.t_startup),
                                     OxStartup(call.engine, call.t_startup))
C8_Witness ==
    /\ Returned("prop_budget") /\ ret.tag = "budget"
    /\ call.m_prop = Dec(50005, -1) /\ call.engine = rd180 /\ call.t_startup = Two

(* C9: with an ullage fraction of 0 each volume prop_budget returns is     *)
(* exactly (mass + startup mass)/density; with an ullage fraction u in      *)
(* [0, 1) the volume times (1 - u) is that quotient (to rounding), so a     *)
(* volume is never below it.                                                *)
C9_UllageInflation ==
    /\ Returned("prop_budget") /\ ret # NoneV
    /\ FGe(call.f_ullage, Zero)
    => \E plain \in {[ox |-> FDiv(FAdd(ret.m_ox, OxStartup(call.engine, call.t_startup)),
                                  call.engine.ox.rho),
                      fuel |-> FDiv(FAdd(ret.m_f, FuelStartup(call.engine, call.t_startup)),
                                    call.engine.fuel.rho)]} :
        /\ FEq(call.f_ullage, Zero) => ret.v_ox = plain.ox /\ ret.v_f = plain.fuel
        /\ Close(FMul(ret.v_ox, FSub(One, call.f_ullage)), plain.ox)
        /\ Close(FMul(ret.v_f, FSub(One, call.f_ullage)), plain.fuel)
        /\ FGe(plain.ox, Zero) => FGe(ret.v_ox, plain.ox)
        /\ FGe(plain.fuel, Zero) => FGe(ret.v_f, plain.fuel)
C9_Witness ==
    /\ Returned("prop_budget") /\ ret.tag = "budget"
    /\ call.f_ullage = Dec(5, -1) /\ call.m_prop = Dec(1000, 0)
    /\ FGt(ret.v_f, FDiv(FAdd(ret.m_f, FuelStartup(call.engine, call.t_startup)),
                         call.engine.fuel.rho))

(* C10: get_margin and size_vehicle, called with a payload, a thrust or a  *)
(* delta-v of zero or less, return an InvalidParameter failure and never a  *)
(* numeric result.                                                          *)
C10_NonPositiveInputsRejected ==
    /\ Returned("get_margin") \/ SizeVehicleReturned
    /\ ~PositiveInputs
    => ret.tag = "InvalidParameter"

(* a root-finding loop is running: size_vehicle's, called with a positive  *)
(* payload, velocity and thrust, or newton_raphson's for one guess          *)
InLoop ==
    \/ pc = "size_vehicle" /\ PositiveInputs
    \/ pc = "newton_raphson"

(* C11: every root-finding loop, newton_raphson's for a guess and           *)
(* size_vehicle's, ends after a bounded number of passes, by the step test  *)
(* or by an iteration cap. A pass is a function of the iterate it starts    *)
(* from, so a loop that ends never stands, its test still true, at an       *)
(* iterate it has started a pass from before: from there it would circle    *)
(* forever                                                                  *)
C11_NoIterateComesBack == ~(InLoop /\ LoopTest /\ x1 \in seen)

(* C12: newton_raphson gives up a guess on account of the slope only when  *)
(* |m| is at or below 1e-3; a slope above the threshold in absolute value,  *)
(* of either sign, lets the loop go on                                      *)
C12_BreakOnlyOnFlatSlope == pc = "break" => FLe(FAbs(m), Dec(1, -3))

(* C13: no pass of a root-finding loop starts from the iterate 0, whose    *)
(* perturbation dx is 0: a guess or an iterate of 0 is rejected or given a *)
(* step of its own before the slope is computed                            *)
C13_NoPassFromZero == \A x \in seen : ~IsZero(x)

(* the record of the sweep for the fraction fr, from fr alone: the second  *)
(* stage sized for the payload, the first stage for the second             *)
SweepRecordFor(fr, s2, s1) ==
    [m |-> s1.m0, ne |-> FAdd(s1.ne, s2.ne),
     v1 |-> first_stage_dv(fr), v2 |-> second_stage_dv(fr)]
SweepFirstStage(fr, s2) ==
    SweepRecordFor(fr, s2, size_vehicle(s2.m0, first_stage_dv(fr), rl10))
SweepRecord(fr) ==
    SweepFirstStage(fr, size_vehicle(payload, second_stage_dv(fr), rl10))

IterateFrom(mpl, dv, engine, x) ==
    IF "k" \notin DOMAIN x THEN x
    ELSE (LET r == size_vehicle_body(mpl, dv, engine, x)
          IN  IF r.tag = "pass" THEN r.x1 ELSE r)

RECURSIVE SizeVehicleIterate(_, _, _, _)
SizeVehicleIterate(mpl, dv, engine, n) ==
    IF n = 0 THEN size_vehicle_entry(Unbound)
    ELSE IterateFrom(mpl, dv, engine, SizeVehicleIterate(mpl, dv, engine, n - 1))

(* C15: newton_raphson, given the margin as a function of the structural   *)
(* fraction and the guess 0.01, goes through the iterates of size_vehicle   *)
(* for the same engine, payload and velocity, pass by pass                  *)
C15_SameIterates ==
    (/\ call.op = "newton_raphson"
     /\ call.func = "margin_of_fraction"
     /\ pc \in {"newton_raphson", "break"}
     /\ guess = Dec(1, -2)
     /\ iter < MaxIter)
        => x1 = SizeVehicleIterate(call.args[2], call.args[3], call.args[1], iter)

(* the fractions get_margin goes on with for the trial pi_se, its halving   *)
(* loop left                                                                *)
UsedFractions(engine, dv, pi_se) ==
    halve(engine.isp, dv, pi_se, mass_fractions(engine.isp, dv, pi_se))

(* 0 < pi_se < pi_bo < 1, pi_pl > 0, and m0 = mpl/pi_pl finite and positive *)
InOrder(fr, mpl) ==
    /\ fr.tag = "fracs"
    /\ FGt(fr.pi_se, Zero) /\ FLt(fr.pi_se, fr.pi_bo) /\ FLt(fr.pi_bo, One)
    /\ FGt(fr.pi_pl, Zero)
    /\ IsFin(FDiv(mpl, fr.pi_pl)) /\ FGt(FDiv(mpl, fr.pi_pl), Zero)

(* C16: in a run of size_vehicle with a positive payload, velocity and      *)
(* thrust, the two evaluations of a pass, at the iterate and at the         *)
(* perturbed point, go on with fractions 0 < pi_se < pi_bo < 1, pi_pl > 0   *)
(* and a finite positive m0: no iterate is used zero or negative           *)
C16_FractionsInOrder ==
    (call.op = "size_vehicle" /\ PositiveInputs /\ prev # Unbound) =>
        /\ InOrder(UsedFractions(call.engine, call.dv, prev), call.mpl)
        /\ InOrder(UsedFractions(call.engine, call.dv,
                                 FAdd(prev, FMul(Dec(-1, -3), prev))), call.mpl)

(* the halvings of get_margin's repair the properties look through *)
MaxHalvings == 4

(* pi_se halved k times, as the repair loop halves it *)
RECURSIVE Halved(_, _)
Halved(pi_se, k) == IF k = 0 THEN pi_se ELSE FDiv(Halved(pi_se, k - 1), Two)

Feasible(engine, dv, pi_se) == mass_fractions(engine.isp, dv, pi_se) # NoneV

(* C17: for an infeasible trial pi_se > 0, with pi_bo > 0, the repair loop *)
(* of get_margin ends, and get_margin gives what it gives for pi_se/2^k,   *)
(* k >= 1 the least number of halvings that makes the trial feasible       *)
C17_RepairByHalving ==
    (/\ call.op = "get_margin"
     /\ FGt(call.pi_se, Zero)
     /\ FGt(BurnoutFraction(call.engine.isp, call.dv), Zero)
     /\ ~Feasible(call.engine, call.dv, call.pi_se))
        => /\ pc # "hang"
           /\ \E k \in 1..MaxHalvings :
                /\ Feasible(call.engine, call.dv, Halved(call.pi_se, k))
                /\ \A j \in 0..(k - 1) :
                       ~Feasible(call.engine, call.dv, Halved(call.pi_se, j))
                /\ FLt(Halved(call.pi_se, k), call.pi_se)
                /\ ret = get_margin(call.engine, call.mpl, call.dv,
                                    Halved(call.pi_se, k))

(* get_margin has returned for a feasible trial: 0 < pi_se < pi_bo, with a *)
(* positive payload, velocity and thrust                                   *)
FeasibleTrial ==
    /\ Returned("get_margin") /\ ret.tag = "margin"
    /\ PositiveInputs
    /\ FGt(call.pi_se, Zero)
    /\ FLt(call.pi_se, BurnoutFraction(call.engine.isp, call.dv))

(* the margin within rounding of zero *)
MarginTol == Dec(1, -6)

(* m_act = 12.16*(v_ox + v_f) + startup losses + engine.mass*ne *)
ActualMass(engine, ne, budget) ==
    FAdd(FAdd(FMul(Dec(1216, -2), FAdd(budget.v_ox, budget.v_f)),
              budget.startup_losses),
         FMul(engine.mass, ne))

(* what C18 says of the returned margin, the masses given *)
MarginLaw(mpl, m0, m_se, m_prop, m_act) ==
    /\ ret.m0 = m0
    /\ Close(FAdd(FAdd(m_se, m_prop), mpl), m0)
    /\ ret.margin = FSub(FMul(FDiv(FSub(m_se, m_act), m_act), Dec(100, 0)),
                         Dec(15, 0))
    /\ FGt(m_act, Zero) =>
        /\ FGt(ret.margin, MarginTol) => FGt(m_se, FMul(Dec(115, -2), m_act))
        /\ FLt(ret.margin, FNeg(MarginTol)) => FLt(m_se, FMul(Dec(115, -2), m_act))
        /\ FGt(m_se, FMul(Dec(115001, -5), m_act)) => FGt(ret.margin, Zero)
        /\ FLt(m_se, FMul(Dec(114999, -5), m_act)) => FLt(ret.margin, Zero)

MarginLawAt(engine, mpl, fr, m0) ==
    MarginLaw(mpl, m0, FMul(m0, fr.pi_se), FMul(fr.pi_prop, m0),
              ActualMass(engine, EngineCount(m0, engine),
                         prop_budget(FMul(fr.pi_prop, m0), engine,
                                     f_ullage_default, t_startup_default)))

MarginLawFor(engine, mpl, fr) == MarginLawAt(engine, mpl, fr, FDiv(mpl, fr.pi_pl))

(* C18: for a feasible trial get_margin returns m0 = mpl/pi_pl and the     *)
(* margin (m_se - m_act)/m_act*100 - 15 of m_se = m0*pi_se over            *)
(* m_act = 12.16*(v_ox + v_f) + startup losses + engine.mass*ne, with      *)
(* m_se + m_prop + mpl = m0; for m_act > 0 the margin is above zero when   *)
(* m_se is above 1.15*m_act and below zero when it is below                *)
C18_MarginFormula ==
    FeasibleTrial =>
        MarginLawFor(call.engine, call.mpl,
                     mass_fractions(call.engine.isp, call.dv, call.pi_se))

(* feasible trials with a margin above zero and an actual mass above zero  *)
C18_Witness ==
    FeasibleTrial /\ FGt(ret.margin, MarginTol) /\ FGt(call.pi_se, Dec(1, -1))

(* C19: every engine handed to get_margin has a dry mass, supplied to the  *)
(* constructor or computed from the thrust, and the flow rate              *)
(* mdot = thrust/(isp*g): get_margin reads engine.mass without raising     *)
C19_EngineHasMass ==
    (call.op = "get_margin" /\ pc # "idle") =>
        /\ "mass" \in DOMAIN call.engine
        /\ call.engine.mdot = FDiv(call.engine.F, FMul(call.engine.isp, g))
        /\ pc # "raised"
====
